---- MODULE Spec2Model ----
(***************************************************************************)
(* Model of the chat component of src/src/App.js: the session bootstrap    *)
(* (setupFirebase), the message listener effect, the composer              *)
(* (handleSendMessage) and the collaborators they talk to (identity        *)
(* provider, message store with its local write queue).                    *)
(*                                                                         *)
(* One component instance is modelled in full.  Other users of the same    *)
(* collection appear as RemoteAppend.  Strings are sequences of            *)
(* characters so that String.prototype.trim is computed, not assumed.      *)
(***************************************************************************)
EXTENDS Integers, Sequences, FiniteSets, TLC

\* ---------------------------------------------------------------- bounds
MaxDocs == 2        \* documents ever created in the collection (local + remote)
MaxMounts == 1      \* component instances mounted over the page's life
MaxTime == 2        \* range of store timestamps and of the client clock

\* ------------------------------------------------------------ vocabulary
Null == "null"                      \* JavaScript null (useState(null))
Firestore == "firestore"            \* the handle getFirestore returns
ProviderUids == {"u1"}              \* identities the provider issues (user.uid)
LocalUuids == {"r1"}                \* values crypto.randomUUID() returns
RemoteUids == {"u9"}                \* another user of the collection
Space == " "
InputTexts == {<< >>, <<Space>>, <<Space, "a">>}  \* what the user may type
Times == 1..MaxTime
NoTimestamp == 0                    \* doc.data().createdAt of a write still in flight
NoOp == "none"                      \* the step just taken was no ignored submit

VARIABLES
  mounted,      \* the component instance is mounted
  inst,         \* number of instances mounted so far; the current one
  setupPc,      \* position of setupFirebase of the current instance
  db,           \* useState db
  userId,       \* useState userId
  loading,      \* useState loading
  messages,     \* useState messages
  newMessage,   \* useState newMessage (the input buffer)
  effectSub,    \* subscription the last effect run's cleanup closes, 0 if none
  subs,         \* every subscription ever opened: how often it was cancelled
  feedError,    \* an error ended the subscription effectSub
  authUser,     \* the identity provider's current user
  authEvent,    \* an auth-state event waits to be delivered to the listener
  store,        \* committed documents of the collection
  pending,      \* appends in flight (the client's local write queue); own: the
                \* handler awaiting it belongs to the mounted instance
  nextId,       \* number of document ids handed out
  lastSnapshot, \* the snapshot the listener's callback received last
  lastOp        \* "submitIgnored" right after handleSendMessage returned early,
                \* NoOp after any other step

vars == <<mounted, inst, setupPc, db, userId, loading, messages, newMessage,
          effectSub, subs, feedError, authUser, authEvent,
          store, pending, nextId, lastSnapshot, lastOp>>

compVars == <<db, userId, loading, messages, newMessage>>
subVars == <<effectSub, subs, feedError>>
authVars == <<authUser, authEvent>>
storeVars == <<store, pending, nextId>>

\* ------------------------------------------------------- pure functions
IsSpace(c) == c = Space

\* String.prototype.trim: strip leading, then trailing white space
RECURSIVE TrimStart(_)
TrimStart(s) ==
  IF s = << >> THEN << >>
  ELSE IF IsSpace(Head(s)) THEN TrimStart(Tail(s)) ELSE s

RECURSIVE TrimEnd(_)
TrimEnd(s) ==
  IF s = << >> THEN << >>
  ELSE IF IsSpace(s[Len(s)]) THEN TrimEnd(SubSeq(s, 1, Len(s) - 1)) ELSE s

Trim(s) == TrimEnd(TrimStart(s))

\* JavaScript truthiness of a string-or-null value (!db, !userId)
Truthy(v) == v # Null /\ v # ""

\* orderBy('createdAt'): ascending createdAt, ties by document id
DocBefore(a, b) ==
  \/ a.createdAt < b.createdAt
  \/ a.createdAt = b.createdAt /\ a.id < b.id

\* a query without orderBy('createdAt'): documents in document id order
RECURSIVE OrderById(_)
OrderById(ds) ==
  IF ds = {} THEN << >>
  ELSE LET d == CHOOSE x \in ds : \A y \in ds : x.id <= y.id
       IN <<d>> \o OrderById(ds \ {d})

\* the documents of a set in the order of the query
RECURSIVE OrderByCreatedAt(_)
OrderByCreatedAt(ds) ==
  IF ds = {} THEN << >>
  ELSE LET d == CHOOSE x \in ds : \A y \in ds \ {x} : DocBefore(x, y)
       IN <<d>> \o OrderByCreatedAt(ds \ {d})

\* the local write queue as documents, in the order the writes were issued:
\* their timestamp is not yet assigned
RECURSIVE PendingDocs(_)
PendingDocs(ps) ==
  IF ps = {} THEN << >>
  ELSE LET p == CHOOSE x \in ps : \A y \in ps : x.id <= y.id
       IN <<[id |-> p.id, text |-> p.text, uid |-> p.uid,
             createdAt |-> NoTimestamp]>>
          \o PendingDocs(ps \ {p})

\* serverTimestamp(): the store stamps a document with its clock when it
\* commits it; the clock never runs backwards, so the stamp is no earlier
\* than that of any document committed before
ServerTimestamps(st) == {t \in Times : \A d \in st : d.createdAt <= t}

\* a query with limit(1): only the first document of the order is returned
QueryLimitOne(st, ps) ==
  LET all == OrderByCreatedAt(st) \o PendingDocs(ps)
  IN IF all = << >> THEN << >> ELSE <<Head(all)>>

\* snapshot.docs of query(messagesCollection, orderBy('createdAt')):
\* committed documents in query order, then the documents of writes
\* still in flight, whose server timestamp sorts after every assigned one
QuerySnapshot(st, ps) == OrderByCreatedAt(st) \o PendingDocs(ps)

\* a conversion without the fallback: a missing timestamp stays missing
ToDateNoFallback(createdAt, now) == createdAt

\* createdAt: doc.data().createdAt ? doc.data().createdAt.toDate() : new Date()
ToDate(createdAt, now) == IF createdAt # NoTimestamp THEN createdAt ELSE now

\* snapshot.docs.map(doc => ({...doc.data(), id: doc.id, createdAt: ...}))
FetchedMessages(docs, now) ==
  [i \in 1..Len(docs) |->
     [id |-> docs[i].id, text |-> docs[i].text, uid |-> docs[i].uid,
      createdAt |-> ToDate(docs[i].createdAt, now)]]

\* ------------------------------------------------ message listener effect
\* the effect's cleanup: () => unsubscribe()
Cleanup(ss, sub) ==
  IF sub = 0 THEN ss
  ELSE [ss EXCEPT ![sub].cancels = ss[sub].cancels + 1]

\* an effect that subscribes as soon as db is set
EffectGuardDbOnly(d, u) == Truthy(d)

\* the guard of the effect body: if (db && userId)
EffectGuard(d, u) == Truthy(d) /\ Truthy(u)

\* an effect whose re-run does not cancel the previous subscription
EffectSubsNoCleanup(ss, sub, d, u) ==
  IF Truthy(d) /\ Truthy(u) THEN Append(ss, [cancels |-> 0]) ELSE ss

\* the subscriptions after the effect ran for dependencies d, u: the
\* previous run's cleanup, then the body
EffectSubs(ss, sub, d, u) ==
  IF EffectGuard(d, u)
  THEN Append(Cleanup(ss, sub), [cancels |-> 0])
  ELSE Cleanup(ss, sub)

\* useEffect(..., [db, userId, appId]) after a render in which db, userId
\* became d, u: it runs only when a dependency changed
MessageListenerEffect(d, u) ==
  IF <<d, u>> = <<db, userId>>
  THEN UNCHANGED <<effectSub, subs, feedError>>
  ELSE /\ subs' = EffectSubs(subs, effectSub, d, u)
       /\ effectSub' = IF EffectGuard(d, u) THEN Len(subs') ELSE 0
       /\ feedError' = FALSE

\* --------------------------------------------------------------- Init
\* the page is loaded and no instance is mounted yet; the component's state
\* variables hold the useState initial values the first render will see
Init ==
  /\ mounted = FALSE
  /\ inst = 0
  /\ setupPc = "gone"
  /\ db = Null
  /\ userId = Null
  /\ loading = TRUE
  /\ messages = << >>
  /\ newMessage = << >>
  /\ effectSub = 0
  /\ subs = << >>
  /\ feedError = FALSE
  /\ authUser = Null
  /\ authEvent = FALSE
  /\ store = {}
  /\ pending = {}
  /\ nextId = 0
  /\ lastSnapshot = << >>
  /\ lastOp = NoOp

\* ---------------------------------------------------- session bootstrap
\* setupFirebase up to its await: initializeApp, getFirestore, getAuth,
\* setDb, setAuth, then the sign-in call is issued
SetupFirebase ==
  /\ mounted /\ setupPc = "start"
  /\ db' = Firestore
  /\ setupPc' = "signIn"
  /\ MessageListenerEffect(Firestore, userId)
  /\ lastOp' = NoOp
  /\ UNCHANGED <<mounted, inst, userId, loading, messages, newMessage>>
  /\ UNCHANGED <<authVars, storeVars, lastSnapshot>>

\* a catch block that only logs the error
SetupCatchKeepsLoading ==
  /\ setupPc' = "failed"
  /\ UNCHANGED loading

\* the catch block of setupFirebase
SetupCatch ==
  /\ setupPc' = "failed"
  /\ loading' = FALSE

\* initializeApp / getFirestore / getAuth throws
SetupFirebaseThrows ==
  /\ mounted /\ setupPc = "start"
  /\ SetupCatch
  /\ lastOp' = NoOp
  /\ UNCHANGED <<mounted, inst, db, userId, messages, newMessage>>
  /\ UNCHANGED <<subVars, authVars, storeVars, lastSnapshot>>

\* the awaited sign-in resolves: the provider has a user, and the
\* onAuthStateChanged listener is registered (its first event is due)
SignInResolves(u) ==
  /\ mounted /\ setupPc = "signIn"
  /\ setupPc' = "done"
  /\ authUser' = u
  /\ authEvent' = TRUE
  /\ lastOp' = NoOp
  /\ UNCHANGED <<mounted, inst, compVars, subVars, storeVars, lastSnapshot>>

\* the awaited sign-in rejects
SignInRejects ==
  /\ mounted /\ setupPc = "signIn"
  /\ SetupCatch
  /\ lastOp' = NoOp
  /\ UNCHANGED <<mounted, inst, db, userId, messages, newMessage>>
  /\ UNCHANGED <<subVars, authVars, storeVars, lastSnapshot>>

\* the userId the callback given to onAuthStateChanged sets
AuthCallbackUserId(user, uuid) == IF user # Null THEN user ELSE uuid

\* a callback that shows the loading screen again while no user is signed in
AuthCallbackLoadingOnNull(user) == user = Null

\* the loading flag the callback given to onAuthStateChanged sets:
\* setLoading(false) in both branches
AuthCallbackLoading(user) == FALSE

\* the callback given to firebaseAuth.onAuthStateChanged, and the render
\* that follows it
OnAuthStateChanged(uuid) ==
  /\ mounted /\ setupPc = "done" /\ authEvent
  /\ userId' = AuthCallbackUserId(authUser, uuid)
  /\ loading' = AuthCallbackLoading(authUser)
  /\ authEvent' = FALSE
  /\ MessageListenerEffect(db, userId')
  /\ lastOp' = NoOp
  /\ UNCHANGED <<mounted, inst, setupPc, db, messages, newMessage>>
  /\ UNCHANGED <<authUser, storeVars, lastSnapshot>>

\* the identity provider drops its current user (the account is deleted or
\* its credential revoked) and notifies the registered listener; with no
\* listener of a mounted instance the change is not observable, since the
\* next sign-in replaces the provider's user
ProviderSignsOut ==
  /\ mounted /\ setupPc = "done"
  /\ authUser # Null
  /\ authUser' = Null
  /\ authEvent' = TRUE
  /\ lastOp' = NoOp
  /\ UNCHANGED <<mounted, inst, setupPc, compVars, subVars, storeVars,
                 lastSnapshot>>

\* --------------------------------------------------------- feed delivery
\* the subscription delivers: it was opened by the last effect run, and has
\* neither been cancelled nor ended by an error
Listening == mounted /\ effectSub # 0 /\ ~feedError

\* a callback that keeps the list it has and appends the documents it does
\* not hold yet
MergeMessages(prev, fetched) ==
  prev \o SelectSeq(fetched,
                    LAMBDA m : \A i \in 1..Len(prev) : prev[i].id # m.id)

\* setMessages(fetchedMessages): the new list is the fetched one
SetMessages(prev, fetched) == fetched

\* the success callback given to onSnapshot
OnSnapshot(now) ==
  /\ Listening
  /\ lastOp' = NoOp
  /\ UNCHANGED <<mounted, inst, setupPc, db, userId, loading, newMessage>>
  /\ UNCHANGED <<subVars, authVars, storeVars>>
  /\ lastSnapshot' = QuerySnapshot(store, pending)
  /\ messages' = SetMessages(messages, FetchedMessages(lastSnapshot', now))

\* an error callback that empties the list it can no longer refresh
OnSnapshotErrorClears ==
  /\ Listening
  /\ feedError' = TRUE
  /\ messages' = << >>
  /\ lastOp' = NoOp
  /\ UNCHANGED <<mounted, inst, setupPc, db, userId, loading, newMessage>>
  /\ UNCHANGED <<effectSub, subs, authVars, storeVars, lastSnapshot>>

\* the error callback given to onSnapshot: console.error only; the store
\* sends a subscription no further event after an error
OnSnapshotError ==
  /\ Listening
  /\ feedError' = TRUE
  /\ lastOp' = NoOp
  /\ UNCHANGED <<mounted, inst, setupPc, compVars, effectSub, subs, authVars,
                 storeVars, lastSnapshot>>

\* ------------------------------------------------------------- composer
\* input onChange: (e) => setNewMessage(e.target.value); the form is
\* rendered only when loading is false
OnChange(text) ==
  /\ mounted /\ ~loading
  /\ newMessage' = text
  /\ lastOp' = NoOp
  /\ UNCHANGED <<mounted, inst, setupPc, db, userId, loading, messages>>
  /\ UNCHANGED <<subVars, authVars, storeVars, lastSnapshot>>

\* handleSendMessage without the !userId test
SubmitRejectedNoUser(text, d, u) == Trim(text) = << >> \/ ~Truthy(d)

\* handleSendMessage comparing the raw buffer with '' (no trim)
SubmitRejectedNoTrim(text, d, u) == text = << >> \/ ~Truthy(d) \/ ~Truthy(u)

\* a handler that also returns early while an earlier addDoc is in flight
SubmitRejectedWhileSending(text, d, u) ==
  Trim(text) = << >> \/ ~Truthy(d) \/ ~Truthy(u) \/ pending # {}

\* the early return of handleSendMessage
SubmitRejected(text, d, u) == Trim(text) = << >> \/ ~Truthy(d) \/ ~Truthy(u)

\* a handler that takes the author from the provider's current user
NewDocFromAuth(id, text, uid) ==
  [id |-> id, text |-> text, uid |-> authUser, own |-> TRUE, attempt |-> 1]

\* the write handleSendMessage hands to addDoc
NewDoc(id, text, uid) ==
  [id |-> id, text |-> text, uid |-> uid, own |-> TRUE, attempt |-> 1]

\* handleSendMessage up to its await: early return or addDoc issued
HandleSendMessage ==
  /\ mounted /\ ~loading
  /\ IF SubmitRejected(newMessage, db, userId)
     THEN /\ lastOp' = "submitIgnored"
          /\ UNCHANGED storeVars
     ELSE /\ nextId < MaxDocs
          /\ nextId' = nextId + 1
          /\ pending' = pending \cup {NewDoc(nextId + 1, newMessage, userId)}
          /\ lastOp' = NoOp
          /\ UNCHANGED store
  /\ UNCHANGED <<mounted, inst, setupPc, compVars, subVars, authVars,
                 lastSnapshot>>

\* a handler that does not clear the input after sending
AfterAddDocKeeps(buffer) == buffer

\* the input buffer after addDoc resolved: setNewMessage('')
AfterAddDoc(buffer) == << >>

\* the input buffer after addDoc rejected: the catch block leaves it
AfterAddDocFailed(buffer) == buffer

\* a catch block that sends the message again, once
RetryOnce(p) == IF p.attempt < 2 THEN {[p EXCEPT !.attempt = 2]} ELSE {}

\* the writes the catch block issues for a failed write p: none
RetryAfterFailure(p) == {}

\* a write with setDoc on a document named after its author: it replaces
\* the message the author stored before
SetDocPerAuthor(st, doc) == {d \in st : d.uid # doc.uid} \cup {doc}

\* addDoc on the collection: the store adds the document under a new id and
\* touches no other document
AddDoc(st, doc) == st \cup {doc}

\* addDoc resolves: the store commits the document with its own timestamp,
\* and the handler of the instance that submitted continues
AddDocResolves(p, t) ==
  /\ p \in pending
  /\ store' = AddDoc(store, [id |-> p.id, text |-> p.text, uid |-> p.uid,
                             createdAt |-> t])
  /\ pending' = pending \ {p}
  /\ IF p.own
     THEN newMessage' = AfterAddDoc(newMessage)
     ELSE UNCHANGED newMessage
  /\ lastOp' = NoOp
  /\ UNCHANGED <<mounted, inst, setupPc, db, userId, loading, messages>>
  /\ UNCHANGED <<subVars, authVars, nextId, lastSnapshot>>

\* addDoc rejects: the document is dropped from the write queue, and the
\* handler's catch block runs
AddDocRejects(p) ==
  /\ p \in pending
  /\ pending' = (pending \ {p}) \cup RetryAfterFailure(p)
  /\ IF p.own
     THEN newMessage' = AfterAddDocFailed(newMessage)
     ELSE UNCHANGED newMessage
  /\ lastOp' = NoOp
  /\ UNCHANGED <<mounted, inst, setupPc, db, userId, loading, messages>>
  /\ UNCHANGED <<subVars, authVars, store, nextId, lastSnapshot>>

\* another user of the collection submits through the same composer, and
\* the store commits the document
RemoteAppend(text, uid, t) ==
  /\ nextId < MaxDocs
  /\ ~SubmitRejected(text, Firestore, uid)
  /\ nextId' = nextId + 1
  /\ store' = AddDoc(store, [id |-> nextId + 1, text |-> text, uid |-> uid,
                             createdAt |-> t])
  /\ lastOp' = NoOp
  /\ UNCHANGED <<mounted, inst, setupPc, compVars, subVars, authVars,
                 pending, lastSnapshot>>

\* ----------------------------------------------------------- rendering
\* className of a message's row: own messages are laid out from the right
RowClass(msg, uid) == IF msg.uid = uid THEN "flex-row-reverse" ELSE "flex-row"

\* className of a message's bubble: the own-message styling or the other
BubbleClass(msg, uid) ==
  IF msg.uid = uid THEN "bg-indigo-500 text-white rounded-br-none"
  ELSE "bg-white text-gray-800 rounded-bl-none"

\* a render that puts the sender's uid above every message
AuthorLabelAlways(msg, uid) == <<msg.uid>>

\* {msg.uid !== userId && <div>{msg.uid}</div>}: the labels rendered
AuthorLabel(msg, uid) == IF msg.uid # uid THEN <<msg.uid>> ELSE << >>

\* className of a message's time line
TimeClass(msg, uid) ==
  IF msg.uid = uid THEN "text-indigo-200" ELSE "text-gray-400"

\* what messages.map renders for one message
RenderMessage(msg, uid) ==
  [key |-> msg.id, row |-> RowClass(msg, uid), bubble |-> BubbleClass(msg, uid),
   label |-> AuthorLabel(msg, uid), text |-> msg.text,
   timeClass |-> TimeClass(msg, uid), time |-> msg.createdAt]

\* the message area of the current render
RenderedMessages == [i \in 1..Len(messages) |-> RenderMessage(messages[i], userId)]

\* ------------------------------------------------- component life cycle
\* an effect that returns no cleanup: the subscription outlives the instance
UnmountLeaks(ss, sub) == ss

\* the subscriptions after React discarded the instance: the cleanup of the
\* listener effect's last run
UnmountSubs(ss, sub) == Cleanup(ss, sub)

\* the writes in flight after the instance is gone: none is cancelled, and
\* the handler that awaits each belongs to no mounted instance any more
Disown(ps) == {[p EXCEPT !.own = FALSE] : p \in ps}

\* React discards the instance: the effect's cleanup runs, the state is gone
Unmount ==
  /\ mounted
  /\ mounted' = FALSE
  /\ subs' = UnmountSubs(subs, effectSub)
  /\ effectSub' = 0
  /\ feedError' = FALSE
  /\ setupPc' = "gone"
  /\ db' = Null /\ userId' = Null /\ loading' = TRUE
  /\ messages' = << >> /\ newMessage' = << >>
  /\ authEvent' = FALSE
  /\ lastSnapshot' = << >>
  /\ lastOp' = NoOp
  /\ pending' = Disown(pending)
  /\ UNCHANGED <<inst, authUser, store, nextId>>

\* a new instance is mounted: useState initial values; the listener effect's
\* first run finds db and userId null and opens nothing
Mount ==
  /\ ~mounted /\ inst < MaxMounts
  /\ mounted' = TRUE
  /\ inst' = inst + 1
  /\ setupPc' = "start"
  /\ lastOp' = NoOp
  /\ UNCHANGED <<compVars, subVars, authVars, storeVars, lastSnapshot>>

Next ==
  \/ SetupFirebase
  \/ SetupFirebaseThrows
  \/ \E u \in ProviderUids : SignInResolves(u)
  \/ SignInRejects
  \/ \E uuid \in LocalUuids : OnAuthStateChanged(uuid)
  \/ ProviderSignsOut
  \/ \E now \in Times : OnSnapshot(now)
  \/ OnSnapshotError
  \/ \E text \in InputTexts : OnChange(text)
  \/ HandleSendMessage
  \/ \E p \in pending : \E t \in ServerTimestamps(store) : AddDocResolves(p, t)
  \/ \E p \in pending : AddDocRejects(p)
  \/ \E text \in InputTexts, uid \in RemoteUids :
       \E t \in ServerTimestamps(store) : RemoteAppend(text, uid, t)
  \/ Unmount
  \/ Mount

Spec == Init /\ [][Next]_vars

\* the session and its feed: the bootstrap, the identity provider, the
\* subscription and the instance's life cycle. The composer's steps are left
\* out: they read loading and setupPc and write neither
SessionNext ==
  \/ SetupFirebase
  \/ SetupFirebaseThrows
  \/ \E u \in ProviderUids : SignInResolves(u)
  \/ SignInRejects
  \/ \E uuid \in LocalUuids : OnAuthStateChanged(uuid)
  \/ ProviderSignsOut
  \/ \E now \in Times : OnSnapshot(now)
  \/ OnSnapshotError
  \/ \E text \in InputTexts, uid \in RemoteUids :
       \E t \in ServerTimestamps(store) : RemoteAppend(text, uid, t)
  \/ Unmount
  \/ Mount

\* React runs the mount effect after the first render, and the sign-in call
\* returns (it resolves or it rejects)
FairSpec ==
  /\ Init /\ [][SessionNext]_vars
  /\ WF_vars(SetupFirebase \/ SetupFirebaseThrows)
  /\ WF_vars((\E u \in ProviderUids : SignInResolves(u)) \/ SignInRejects)

\* the feed of an instance that stays mounted: every step but the unmount
FeedNext ==
  \/ SetupFirebase
  \/ SetupFirebaseThrows
  \/ \E u \in ProviderUids : SignInResolves(u)
  \/ SignInRejects
  \/ \E uuid \in LocalUuids : OnAuthStateChanged(uuid)
  \/ ProviderSignsOut
  \/ \E now \in Times : OnSnapshot(now)
  \/ OnSnapshotError
  \/ \E text \in InputTexts : OnChange(text)
  \/ HandleSendMessage
  \/ \E p \in pending : \E t \in ServerTimestamps(store) : AddDocResolves(p, t)
  \/ \E p \in pending : AddDocRejects(p)
  \/ \E text \in InputTexts, uid \in RemoteUids :
       \E t \in ServerTimestamps(store) : RemoteAppend(text, uid, t)
  \/ Mount

\* the store calls the success callback of a subscription that has not
\* failed whenever the result of its query has changed
FeedSpec ==
  /\ Init /\ [][FeedNext]_vars
  /\ WF_vars(\E now \in Times : OnSnapshot(now))

\* ================================================================ claims
StoreIds == {d.id : d \in store}
PendingIds == {p.id : p \in pending}

\* writes issued by a submit that the store rejected: ids handed out that
\* are neither committed nor in flight any more
FailedWrites == nextId - Cardinality(StoreIds \cup PendingIds)

\* a step in which handleSendMessage issued a write
SubmitIssued == PendingIds' \ PendingIds # {}

\* ---------------------------------------------------------------- C1
\* C1: whatever the session state, a submit while the input buffer trims to
\* the empty string issues no append; hence every message handed to the
\* store has a text whose trimmed value is non-empty.
C1_BlankSubmitNeverAppends ==
  /\ [](\A d \in store \cup pending : Trim(d.text) # << >>)
  /\ [][Trim(newMessage) = << >> => ~SubmitIssued]_vars

\* handleSendMessage has just returned early on a white-space-only buffer
\* in a session that is otherwise ready to send
C1_Witness ==
  /\ lastOp = "submitIgnored"
  /\ newMessage # << >> /\ Trim(newMessage) = << >>
  /\ EffectGuard(db, userId)
  /\ pending = {}

\* ---------------------------------------------------------------- C2
\* C2: the step in which an append fails leaves the input buffer as it was
\* and issues no write; no write is ever attempted a second time, and a
\* step issues at most one write.
C2_FailedAppendKeepsBufferNoRetry ==
  /\ [](\A p \in pending : p.attempt = 1)
  /\ [][FailedWrites' > FailedWrites
          => newMessage' = newMessage /\ ~SubmitIssued]_vars
  /\ [][Cardinality(PendingIds' \ PendingIds) <= 1]_vars

\* an append of the mounted instance failed, nothing is in flight, and the
\* buffer still holds the text
C2_Witness ==
  /\ mounted /\ FailedWrites = 1 /\ store = {} /\ pending = {}
  /\ Trim(newMessage) # << >>

\* ---------------------------------------------------------------- C3
\* C3: the step in which an append of the mounted instance is committed
\* leaves the input buffer empty, whatever was typed or submitted while the
\* append was in flight.
C3_SuccessClearsBuffer ==
  [][(\E p \in pending : p.own /\ p.id \in StoreIds' \ StoreIds)
       => newMessage' = << >>]_vars

\* one append of this session is committed while a later one is still in
\* flight, and the buffer is empty
C3_Witness ==
  /\ mounted /\ newMessage = << >>
  /\ \E d \in store : d.uid = userId
  /\ \E p \in pending : p.own /\ p.id \notin StoreIds

\* ---------------------------------------------------------------- C4
\* C4: the list the client holds is the last snapshot, document by document
\* in the snapshot's order (no client-side sort), and the records whose
\* timestamp the store has assigned appear in ascending createdAt order,
\* whatever the order in which the messages were submitted.
C4_FeedInStoreTimestampOrder ==
  /\ Len(messages) = Len(lastSnapshot)
  /\ \A i \in 1..Len(messages) : messages[i].id = lastSnapshot[i].id
  /\ \A i, j \in 1..Len(messages) :
       (i < j /\ lastSnapshot[i].createdAt # NoTimestamp
              /\ lastSnapshot[j].createdAt # NoTimestamp)
         => messages[i].createdAt <= messages[j].createdAt

\* the later submitted message was stamped earlier and is listed first
C4_Witness ==
  /\ Len(messages) = 2
  /\ messages[1].id > messages[2].id
  /\ messages[1].createdAt < messages[2].createdAt
  /\ \A i \in 1..2 : lastSnapshot[i].createdAt # NoTimestamp

ActiveSubs == {i \in 1..Len(subs) : subs[i].cancels = 0}

\* C6: at most one subscription is active at any time; one is active only
\* for a mounted instance whose db and userId are both set; and a step that
\* opens a subscription leaves no older one active.
C6_AtMostOneSubscription ==
  /\ [](/\ Cardinality(ActiveSubs) <= 1
        /\ ActiveSubs # {} => mounted /\ Truthy(db) /\ Truthy(userId))
  /\ [][Len(subs') > Len(subs) => ActiveSubs' = {Len(subs')}]_vars

\* the userId changed after a subscription was opened: the first one is
\* cancelled and the second is the active one
C6_Witness ==
  /\ mounted /\ Len(subs) = 2
  /\ subs[1].cancels = 1 /\ subs[2].cancels = 0
  /\ effectSub = 2

\* ---------------------------------------------------------------- C7
\* C7: a step that opens the feed subscription or issues an append happens
\* only when the sign-in call of the mounted instance has returned and a
\* userId is set.
C7_NoStoreAccessBeforeBootstrap ==
  [][(Len(subs') > Len(subs) \/ SubmitIssued)
       => mounted' /\ setupPc' = "done" /\ Truthy(userId')]_vars

\* the bootstrap is complete, the feed is subscribed and an append is in
\* flight
C7_Witness ==
  /\ Listening /\ setupPc = "done"
  /\ \E p \in pending : p.own /\ p.uid = userId

\* ---------------------------------------------------------------- C8
\* C8: a mounted instance that is loading does not stay so for ever unless
\* its sign-in succeeded: when the initialisation throws or the sign-in
\* rejects, loading becomes false.
C8_FailedStartupStopsLoading ==
  [](mounted /\ loading => <>(~mounted \/ ~loading \/ setupPc = "done"))

\* the sign-in call rejected and the instance is no longer loading
C8_Witness ==
  /\ mounted /\ setupPc = "failed" /\ db = Firestore
  /\ ~loading

\* ---------------------------------------------------------------- C9
\* C9: after a failed start-up the instance is done loading, its userId is
\* unset, it holds no subscription and none of its appends is in flight;
\* and no step taken in that state opens a subscription or issues an append.
C9_FailedStartupHasNoIdentity ==
  /\ [](mounted /\ setupPc = "failed"
          => /\ ~loading /\ userId = Null /\ effectSub = 0
             /\ \A p \in pending : ~p.own)
  /\ [][setupPc = "failed" => Len(subs') = Len(subs) /\ ~SubmitIssued]_vars

\* after a failed sign-in the user typed a message and its submit was
\* ignored
C9_Witness ==
  /\ mounted /\ setupPc = "failed" /\ db = Firestore
  /\ Trim(newMessage) # << >>
  /\ lastOp = "submitIgnored"

\* --------------------------------------------------------------- C10
\* C10: the write a submit issues carries the session's userId of that
\* moment as its uid, and that uid is not empty; so no message in flight or
\* stored has an empty uid.
C10_AuthorIsSessionUser ==
  /\ [](\A d \in store \cup pending : Truthy(d.uid))
  /\ [][\A p \in pending' :
          p.id \notin PendingIds => p.uid = userId /\ Truthy(p.uid)]_vars

\* a message of the session is stored under the identity the session took
\* after the provider's user was dropped
C10_Witness ==
  /\ mounted /\ userId \in LocalUuids
  /\ \E d \in store : d.uid = userId

\* --------------------------------------------------------------- C11
\* C11: for as long as the instance is mounted, a userId that has been set
\* is never replaced by a different value, whatever auth-state events the
\* identity provider delivers.
C11_UserIdStable ==
  [][(mounted /\ mounted' /\ Truthy(userId)) => userId' = userId]_vars

\* --------------------------------------------------------------- C12
\* C12: the userId is always unset or an identity issued by the provider,
\* and every message in flight or stored carries an identity issued by the
\* provider: none is written under a locally generated identity.
C12_UserIdFromProvider ==
  /\ userId \in ProviderUids \cup {Null}
  /\ \A d \in store \cup pending : d.uid \in ProviderUids \cup RemoteUids

\* --------------------------------------------------------------- C13
\* C13: the step in which the subscription's error callback fires changes
\* neither the message list, which stays that of the last delivered
\* snapshot, nor the input buffer, the userId or the loading flag.
C13_FeedErrorKeepsState ==
  [][(feedError' /\ ~feedError)
       => UNCHANGED <<messages, lastSnapshot, newMessage, userId, loading>>]_vars

\* the subscription has failed while a delivered list is displayed and a
\* text is typed
C13_Witness ==
  /\ mounted /\ feedError
  /\ messages # << >>
  /\ Trim(newMessage) # << >>

\* --------------------------------------------------------------- C14
MessageIds == {messages[i].id : i \in 1..Len(messages)}

\* C14: under fair delivery of snapshots, no message the store holds,
\* whether this session or another user wrote it, stays for ever missing
\* from the message list of an instance whose subscription stays active:
\* time and again the message is in the list, or the subscription is not
\* delivering (a stored message stays stored, so "not stored" recurs only
\* for a message that is never stored).
C14_StoredIsEventuallyObserved ==
  \A id \in 1..MaxDocs :
    []<>(id \in StoreIds => ~Listening \/ id \in MessageIds)

\* the list of a subscribed instance shows a stored message of the session
\* and a stored message of another user
C14_Witness ==
  /\ Listening
  /\ \E d \in store : d.uid = userId /\ d.id \in MessageIds
  /\ \E d \in store : d.uid \in RemoteUids /\ d.id \in MessageIds

\* --------------------------------------------------------------- C15
\* C15: every message of the list is rendered as an own message (laid out
\* from the right, own styling, no author label) exactly when its uid equals
\* the current userId, and otherwise from the left, with the other styling
\* and its uid as the author label.
C15_OwnMessageRendering ==
  \A i \in 1..Len(messages) :
    LET r == RenderedMessages[i]
    IN IF messages[i].uid = userId
       THEN /\ r.row = "flex-row-reverse"
            /\ r.bubble = "bg-indigo-500 text-white rounded-br-none"
            /\ r.timeClass = "text-indigo-200"
            /\ r.label = << >>
       ELSE /\ r.row = "flex-row"
            /\ r.bubble = "bg-white text-gray-800 rounded-bl-none"
            /\ r.timeClass = "text-gray-400"
            /\ r.label = <<messages[i].uid>>

\* the rendered list holds a message of the session and one of another user
C15_Witness ==
  /\ mounted /\ ~loading
  /\ \E i \in 1..Len(messages) : messages[i].uid = userId
  /\ \E i \in 1..Len(messages) : messages[i].uid # userId

\* --------------------------------------------------------------- C16
\* C16: no step removes or changes a stored message: every record of the
\* store, with its id, text, uid and createdAt, is still in the store after
\* the step; and no two stored records share an id, so none is a second
\* version of another.
C16_StoredMessagesImmutable ==
  /\ [](Cardinality(StoreIds) = Cardinality(store))
  /\ [][store \subseteq store']_vars

\* the session stored two messages, and both are in the store
C16_Witness ==
  /\ mounted
  /\ \E d, e \in store : d.id # e.id /\ d.uid = userId /\ e.uid = userId

\* --------------------------------------------------------------- C17
\* C17: the message list is exactly what the callback makes of the last
\* delivered snapshot: one record per document, in the snapshot's order,
\* with the document's id, text, uid and timestamp (one clock reading for
\* the documents that have none); nothing of an earlier snapshot is kept.
C17_SnapshotReplacesList ==
  /\ \E now \in Times : messages = FetchedMessages(lastSnapshot, now)
  /\ Cardinality(MessageIds) = Len(messages)

\* the store rejected the first write and committed the second: the list
\* delivered after that holds the second message only
C17_Witness ==
  /\ Listening /\ FailedWrites = 1 /\ pending = {}
  /\ Len(messages) = 1
  /\ MessageIds = StoreIds
  /\ messages[1].id = 2

\* --------------------------------------------------------------- C18
\* C18: every record of the message list, and so every time the render
\* formats, has a createdAt that is a point in time: the store's timestamp
\* where the document has one, and otherwise a reading of the client's
\* clock.
C18_CreatedAtDefined ==
  \A i \in 1..Len(messages) :
    /\ messages[i].createdAt \in Times
    /\ RenderedMessages[i].time \in Times
    /\ lastSnapshot[i].createdAt # NoTimestamp
         => messages[i].createdAt = lastSnapshot[i].createdAt

\* the list holds a stored message after which the store's clock moved on,
\* and a message still in flight
C18_Witness ==
  /\ Len(messages) = 2
  /\ lastSnapshot[1].createdAt = 1 /\ messages[1].createdAt = 1
  /\ lastSnapshot[2].createdAt = NoTimestamp /\ messages[2].createdAt = 2

\* --------------------------------------------------------------- C19
\* C19: a submit is ignored only when the buffer trims to nothing or db or
\* userId is unset, never because an earlier append is still in flight: in
\* a ready session with a non-blank buffer a submit can issue an append
\* whatever is in flight; and the step that issues one adds exactly one
\* write, whose text is the buffer of that moment, and leaves the writes in
\* flight as they are.
C19_ConcurrentSubmits ==
  /\ [](lastOp = "submitIgnored"
          => Trim(newMessage) = << >> \/ ~Truthy(db) \/ ~Truthy(userId))
  /\ [](/\ mounted /\ ~loading /\ nextId < MaxDocs
        /\ Trim(newMessage) # << >> /\ Truthy(db) /\ Truthy(userId)
        => ENABLED (HandleSendMessage /\ SubmitIssued))
  /\ [][SubmitIssued
          => /\ pending \subseteq pending'
             /\ \E p \in pending' :
                  /\ PendingIds' \ PendingIds = {p.id}
                  /\ p.text = newMessage]_vars

\* two appends of the mounted instance are in flight at once
C19_Witness ==
  /\ mounted
  /\ Cardinality({p \in pending : p.own /\ p.uid = userId}) = 2

\* --------------------------------------------------------------- C20
\* C20: a new instance starts with loading true, and loading stays true
\* until its sign-in call has returned; once loading is false, no step of
\* the mounted instance (auth-state change, snapshot delivery, subscription
\* error, submit, append success or failure) sets it back to true.
C20_LoadingOnlyTurnsOff ==
  /\ [](mounted /\ setupPc \in {"start", "signIn"} => loading)
  /\ [][(mounted /\ ~loading /\ mounted') => ~loading']_vars

\* the instance was ready, the provider dropped its user, the callback ran
\* again, and the instance is still not loading
C20_Witness ==
  /\ mounted /\ ~loading
  /\ userId \in LocalUuids
  /\ Len(subs) = 2

====
